---- MODULE Spec2Model ----
(***************************************************************************)
(* State-machine model of "projects/python timer.py": PomodoroAutomation,  *)
(* the Selenium script that drives two vClock timer tabs through an        *)
(* endless Work/Break rhythm.                                              *)
(*                                                                         *)
(* One action is one blocking step of the sequential program (a driver     *)
(* command or a time.sleep) together with the non-blocking code around it. *)
(* The environment chooses the outcome of every blocking step: the driver  *)
(* command succeeds or raises a WebDriverException (an Exception), and a   *)
(* KeyboardInterrupt (a BaseException, not an Exception) may be delivered  *)
(* while the step blocks.                                                  *)
(***************************************************************************)
EXTENDS Integers, Sequences, FiniteSets, TLC

\* ------------------------------------------------------------------ bounds
\* Iterations of main_loop's "while True" that the model follows.
MaxCycles == 2
\* External interrupts (Ctrl+C) the environment delivers in one run.
MaxInterrupts == 2
\* Largest overridden duration, in minutes, of specification SpecDur.
MaxDur == 2

\* ------------------------------------------------------- program constants
WORK_DURATION == 25
BREAK_DURATION == 5
\* len(selectors) in start_timer
NSelectors == 4

VARIABLES
  system,         \* platform.system()
  exists,         \* the paths p with os.path.exists(p)
  brave_path,     \* result of find_brave_path, "None" before / when not found
  driver,         \* self.driver: "None" | "running" | "quit"
  handles,        \* driver.window_handles
  focus,          \* driver.current_window_handle
  work_tab,       \* self.work_tab
  break_tab,      \* self.break_tab
  work_duration,  \* self.work_duration
  break_duration, \* self.break_duration
  pc,             \* position of the single thread of control
  after,          \* what follows cleanup(): "exit1" (run) | "return" (main_loop)
  session,        \* session operation being executed: "None" | "Work" | "Break"
  i,              \* loop variable of the progress loop
  sel,            \* index into selectors in start_timer's fallback
  session_count,  \* main_loop's local counter
  exit_status,    \* process exit status, -1 while running
  interrupts,     \* interrupts delivered so far
  \* ---- observations of the run (history variables)
  markers,        \* "." printed by the current session call
  waits,          \* completed time.sleep(60) of the current session call
  fails,          \* steps of the current session call that reported failure
  warned,         \* warnings printed by the current session call
  last_ret,       \* the session call that has just returned
  lastCmd,        \* last reset / duration / start command sent to the driver
  completed,      \* iterations in which Work and Break both returned True
  reported,       \* "Total sessions completed" printed on interrupt, -1 if none
  cleanup_calls,  \* calls of cleanup()
  last_failed,    \* type of the session whose failure is being backed off
  retry_of,       \* type of the failed session the current session follows
  waited,         \* the back-off sleep(5) after the last failure has elapsed
  int_sleep,      \* an interrupt arrived inside a progress loop's sleep(60)
  acq_failed,     \* setup_browser() returned False
  tabs_failed,    \* setup_tabs() returned False
  loop_entered,   \* main_loop() was called
  unexpected      \* main_loop's "except Exception" handler ran

envVars  == <<system, exists>>
cfgVars  == <<work_duration, break_duration>>
tabVars  == <<work_tab, break_tab>>
brVars   == <<driver, handles, focus>>
sessVars == <<markers, waits, fails, warned>>
flagVars == <<acq_failed, tabs_failed, loop_entered, unexpected>>
retryVars == <<last_failed, retry_of, waited>>

vars == <<system, exists, brave_path, driver, handles, focus, work_tab,
          break_tab, work_duration, break_duration, pc, after, session, i,
          sel, session_count, exit_status, interrupts, markers, waits, fails,
          warned, last_ret, lastCmd, completed, reported, cleanup_calls,
          last_failed, retry_of, waited, int_sleep, acq_failed, tabs_failed,
          loop_entered, unexpected>>

Range(s) == {s[k] : k \in 1..Len(s)}

NoRet == [session |-> "None", value |-> FALSE, markers |-> 0, waits |-> 0,
          fails |-> {}, warned |-> {}]
NoCmd == [session |-> "None", kind |-> "None", focus |-> "None"]

CanInterrupt == interrupts < MaxInterrupts

\* ------------------------------------------------------------ find_brave_path
Systems == {"Windows", "Darwin", "Linux"}

possible_paths(sys) ==
  IF sys = "Windows" THEN
    <<"C:/Program Files/BraveSoftware/brave.exe",
      "C:/Program Files (x86)/BraveSoftware/brave.exe",
      "%LOCALAPPDATA%/BraveSoftware/brave.exe",
      "%PROGRAMFILES%/BraveSoftware/brave.exe",
      "%PROGRAMFILES(X86)%/BraveSoftware/brave.exe",
      "~/AppData/Local/BraveSoftware/brave.exe">>
  ELSE IF sys = "Darwin" THEN
    <<"/Applications/Brave Browser.app",
      "~/Applications/Brave Browser.app">>
  ELSE
    <<"/usr/bin/brave-browser",
      "/usr/bin/brave",
      "/usr/local/bin/brave-browser",
      "/usr/local/bin/brave",
      "/opt/brave.com/brave/brave-browser",
      "/opt/brave.com/brave/brave",
      "/snap/bin/brave",
      "~/.local/bin/brave",
      "~/.local/bin/brave-browser">>

\* for path in possible_paths: if os.path.exists(path): return path
RECURSIVE first_existing(_, _, _)
first_existing(paths, ex, k) ==
  IF k > Len(paths) THEN "None"
  ELSE IF paths[k] \in ex THEN paths[k]
  ELSE first_existing(paths, ex, k + 1)

\* mutant: the scan keeps going and returns the last existing candidate
RECURSIVE last_existing(_, _, _)
last_existing(paths, ex, k) ==
  IF k = 0 THEN "None"
  ELSE IF paths[k] \in ex THEN paths[k]
  ELSE last_existing(paths, ex, k - 1)

find_brave_path_last(sys, ex) ==
  last_existing(possible_paths(sys), ex, Len(possible_paths(sys)))

find_brave_path(sys, ex) == first_existing(possible_paths(sys), ex, 1)

\* ------------------------------------------------------------------- Init
\* PomodoroAutomation.__init__ and the environment the process starts in.
InitObject ==
  /\ brave_path = "None"
  /\ driver = "None"
  /\ handles = << >>
  /\ focus = "None"
  /\ work_tab = "None"
  /\ break_tab = "None"
  /\ pc = "setup_browser"
  /\ after = "None"
  /\ session = "None"
  /\ i = 0
  /\ sel = 0
  /\ session_count = 0
  /\ exit_status = -1
  /\ interrupts = 0
  /\ markers = 0
  /\ waits = 0
  /\ fails = {}
  /\ warned = {}
  /\ last_ret = NoRet
  /\ lastCmd = NoCmd
  /\ completed = 0
  /\ reported = -1
  /\ cleanup_calls = 0
  /\ last_failed = "None"
  /\ retry_of = "None"
  /\ waited = FALSE
  /\ int_sleep = FALSE
  /\ acq_failed = FALSE
  /\ tabs_failed = FALSE
  /\ loop_entered = FALSE
  /\ unexpected = FALSE

\* The filesystems the main specification starts from: no candidate
\* installed, or every candidate of the platform installed.
Init ==
  /\ system \in Systems
  /\ exists \in {{}, Range(possible_paths(system))}
  /\ work_duration = WORK_DURATION
  /\ break_duration = BREAK_DURATION
  /\ InitObject

\* --------------------------------------------------------------- process end
\* sys.exit(1) in run(): SystemExit is no Exception, main() lets it through.
sys_exit_1 ==
  /\ pc' = "exit"
  /\ exit_status' = 1

\* A KeyboardInterrupt that nothing catches: run() and main() do not, the
\* interpreter ends the process with the SIGINT status and no cleanup.
uncaught_KeyboardInterrupt ==
  /\ pc' = "exit"
  /\ exit_status' = 130

\* ------------------------------------------------------- setup_brave_browser
\* lines 91-97: probe the candidate paths; not found -> return False -> run exits 1
SetupBraveFind ==
  /\ pc = "setup_browser"
  /\ brave_path' = find_brave_path(system, exists)
  /\ \/ /\ brave_path' = "None"
        /\ acq_failed' = TRUE
        /\ sys_exit_1
     \/ /\ brave_path' # "None"
        /\ acq_failed' = FALSE
        /\ pc' = "start_driver"
        /\ UNCHANGED exit_status
  /\ UNCHANGED <<envVars, cfgVars, tabVars, brVars, sessVars, retryVars,
                 after, session, i, sel, session_count, interrupts, last_ret,
                 lastCmd, completed, reported, cleanup_calls, int_sleep,
                 tabs_failed, loop_entered, unexpected>>

\* lines 120-125: ChromeDriverManager().install() and webdriver.Chrome(...)
SetupBraveStart ==
  /\ pc = "start_driver"
  /\ \/ /\ driver' = "running"
        /\ handles' = <<"h1">>
        /\ focus' = "h1"
        /\ pc' = "maximize"
        /\ UNCHANGED <<exit_status, acq_failed, interrupts>>
     \/ /\ acq_failed' = TRUE
        /\ sys_exit_1
        /\ UNCHANGED <<brVars, interrupts>>
     \/ /\ CanInterrupt
        /\ interrupts' = interrupts + 1
        /\ uncaught_KeyboardInterrupt
        /\ UNCHANGED <<brVars, acq_failed>>
  /\ UNCHANGED <<envVars, cfgVars, tabVars, sessVars, retryVars, brave_path,
                 after, session, i, sel, session_count, last_ret, lastCmd,
                 completed, reported, cleanup_calls, int_sleep, tabs_failed,
                 loop_entered, unexpected>>

\* lines 127-139: maximize_window(); a raise returns False with the driver alive
SetupBraveMaximize ==
  /\ pc = "maximize"
  /\ \/ /\ pc' = "tabs_load_work"
        /\ UNCHANGED <<exit_status, acq_failed, interrupts>>
     \/ /\ acq_failed' = TRUE
        /\ sys_exit_1
        /\ UNCHANGED interrupts
     \/ /\ CanInterrupt
        /\ interrupts' = interrupts + 1
        /\ uncaught_KeyboardInterrupt
        /\ UNCHANGED acq_failed
  /\ UNCHANGED <<envVars, cfgVars, tabVars, brVars, sessVars, retryVars,
                 brave_path, after, session, i, sel, session_count, last_ret,
                 lastCmd, completed, reported, cleanup_calls, int_sleep,
                 tabs_failed, loop_entered, unexpected>>

\* ------------------------------------------------------------------ cleanup
\* Exit status once cleanup() has run.  cleanup's bare "except:" swallows
\* whatever driver.quit() raises, so the caller always goes on: run() to
\* sys.exit(1), main_loop to a normal return and so to status 0.
cleanup_status_propagating(outcome, aft) ==
  IF outcome = "raise" \/ aft = "exit1" THEN 1 ELSE 0

cleanup_status(outcome, aft) == IF aft = "exit1" THEN 1 ELSE 0

\* lines 468-476, followed by the caller's exit
Cleanup ==
  /\ pc = "cleanup"
  /\ cleanup_calls' = cleanup_calls + 1
  /\ pc' = "exit"
  /\ \/ /\ driver = "None"
        /\ exit_status' = cleanup_status("ok", after)
        /\ UNCHANGED <<driver, interrupts>>
     \/ /\ driver # "None"
        /\ driver' = "quit"
        /\ exit_status' = cleanup_status("ok", after)
        /\ UNCHANGED interrupts
     \/ /\ driver # "None"
        /\ exit_status' = cleanup_status("raise", after)
        /\ UNCHANGED <<driver, interrupts>>
     \/ /\ driver # "None"
        /\ CanInterrupt
        /\ interrupts' = interrupts + 1
        /\ exit_status' = cleanup_status("interrupt", after)
        /\ UNCHANGED driver
  /\ UNCHANGED <<envVars, cfgVars, tabVars, sessVars, retryVars, flagVars,
                 handles, focus, brave_path, after, session, i, sel,
                 session_count, last_ret, lastCmd, completed, reported,
                 int_sleep>>

\* ------------------------------------------------------------------ setup_tabs
TabsPcs == {"tabs_load_work", "tabs_open", "tabs_switch_break",
            "tabs_load_break", "tabs_switch_back"}

\* mutant: the break tab is the first reported handle, whatever it is
first_tab(all_tabs, work, old, k) ==
  IF Len(all_tabs) = 0 THEN old ELSE all_tabs[1]

\* lines 164-167: the first reported handle that is not the work tab;
\* self.break_tab keeps its old value when there is none
RECURSIVE first_other_tab(_, _, _, _)
first_other_tab(all_tabs, work, old, k) ==
  IF k > Len(all_tabs) THEN old
  ELSE IF all_tabs[k] # work THEN all_tabs[k]
  ELSE first_other_tab(all_tabs, work, old, k + 1)

\* switch_to.window(h) can succeed only for a handle the browser has
window_exists(h) == h \in Range(handles)

\* run(), lines 493-496: setup_tabs returned False -> cleanup(), sys.exit(1)
run_tabs_enter_loop ==
  /\ pc' = "loop_top"
  /\ after' = after

run_tabs_failed ==
  /\ pc' = "cleanup"
  /\ after' = "exit1"

\* lines 152-155: driver.get(url); work_tab = current_window_handle
TabsLoadWork ==
  /\ pc = "tabs_load_work"
  /\ work_tab' = focus
  /\ pc' = "tabs_open"
  /\ UNCHANGED <<envVars, cfgVars, brVars, sessVars, retryVars, flagVars,
                 break_tab, brave_path, after, session, i, sel, session_count,
                 exit_status, interrupts, last_ret, lastCmd, completed,
                 reported, cleanup_calls, int_sleep>>

\* lines 159-167: window.open(''), read window_handles, pick the break tab.
\* The browser opens the new window or does not (the script call itself
\* succeeded either way).
TabsOpen ==
  /\ pc = "tabs_open"
  /\ \E hs \in {handles, Append(handles, "h2")} :
       /\ handles' = hs
       /\ break_tab' = first_other_tab(hs, work_tab, break_tab, 1)
  /\ pc' = "tabs_switch_break"
  /\ UNCHANGED <<envVars, cfgVars, sessVars, retryVars, flagVars, driver,
                 focus, work_tab, brave_path, after, session, i, sel,
                 session_count, exit_status, interrupts, last_ret, lastCmd,
                 completed, reported, cleanup_calls, int_sleep>>

\* line 169: driver.switch_to.window(self.break_tab)
TabsSwitchBreak ==
  /\ pc = "tabs_switch_break"
  /\ window_exists(break_tab)
  /\ focus' = break_tab
  /\ pc' = "tabs_load_break"
  /\ UNCHANGED <<envVars, cfgVars, tabVars, sessVars, retryVars, flagVars,
                 driver, handles, brave_path, after, session, i, sel,
                 session_count, exit_status, interrupts, last_ret, lastCmd,
                 completed, reported, cleanup_calls, int_sleep>>

\* lines 170-173: driver.get(url) in the break tab
TabsLoadBreak ==
  /\ pc = "tabs_load_break"
  /\ pc' = "tabs_switch_back"
  /\ UNCHANGED <<envVars, cfgVars, tabVars, brVars, sessVars, retryVars,
                 flagVars, brave_path, after, session, i, sel, session_count,
                 exit_status, interrupts, last_ret, lastCmd, completed,
                 reported, cleanup_calls, int_sleep>>

\* lines 176-179 and run() line 499: switch back to the work tab, return
\* True; run() calls main_loop(), which sets session_count = 0 (line 430)
TabsSwitchBack ==
  /\ pc = "tabs_switch_back"
  /\ window_exists(work_tab)
  /\ focus' = work_tab
  /\ session_count' = 0
  /\ loop_entered' = TRUE
  /\ pc' = "loop_top"
  /\ UNCHANGED <<envVars, cfgVars, tabVars, sessVars, retryVars, driver,
                 handles, brave_path, after, session, i, sel, exit_status,
                 interrupts, last_ret, lastCmd, completed, reported,
                 cleanup_calls, int_sleep, acq_failed, tabs_failed,
                 unexpected>>

\* lines 181-183 and run() lines 493-496: a driver command of setup_tabs
\* raises; setup_tabs returns False
SetupTabsRaise ==
  /\ pc \in TabsPcs
  /\ tabs_failed' = TRUE
  /\ run_tabs_failed
  /\ UNCHANGED <<envVars, cfgVars, tabVars, brVars, sessVars, retryVars,
                 brave_path, session, i, sel, session_count, exit_status,
                 interrupts, last_ret, lastCmd, completed, reported,
                 cleanup_calls, int_sleep, acq_failed, loop_entered,
                 unexpected>>

\* "except Exception" (line 181) does not catch KeyboardInterrupt
SetupTabsInterrupt ==
  /\ pc \in TabsPcs
  /\ CanInterrupt
  /\ interrupts' = interrupts + 1
  /\ uncaught_KeyboardInterrupt
  /\ UNCHANGED <<envVars, cfgVars, tabVars, brVars, sessVars, retryVars,
                 flagVars, brave_path, after, session, i, sel, session_count,
                 last_ret, lastCmd, completed, reported, cleanup_calls,
                 int_sleep>>

\* -------------------------------------------------------------- the sessions
\* start_work_timer uses self.work_tab / self.work_duration (lines 353, 363,
\* 377), start_break_timer self.break_tab / self.break_duration (390, 400, 414)
session_tab_work_only(s) == work_tab

session_tab(s) == IF s = "Work" THEN work_tab ELSE break_tab

session_duration(s) == IF s = "Work" THEN work_duration ELSE break_duration

\* for i in range(d): print("."); time.sleep(60)   (lines 377-379, 414-416)
progress_loop_runs_one_less(k, d) == k < d - 1

progress_loop_runs(k, d) == k < d

\* Which failed step makes the session operation return False: only the
\* tab switch (lines 353-354 / 390-391); a False from set_timer_duration or
\* start_timer only prints a warning (lines 363-364, 369-370 / 400-401,
\* 406-407)
session_aborts_on_any(step) == TRUE

session_aborts_on(step) == step = "switch"

\* what a returning session call has done
Ret(value, f, w) ==
  [session |-> session, value |-> value, markers |-> markers,
   waits |-> waits, fails |-> f, warned |-> w]

Cmd(kind) == [session |-> session, kind |-> kind, focus |-> focus]

\* main_loop's "except KeyboardInterrupt" (lines 458-460) and "finally"
main_loop_KeyboardInterrupt ==
  /\ interrupts' = interrupts + 1
  /\ reported' = session_count
  /\ pc' = "cleanup"
  /\ after' = "return"

\* mutant: the "continue" of line 448 is missing, a failed Work session
\* falls through to start_break_timer
main_loop_session_failed_no_continue ==
  /\ last_failed' = IF session = "Work" THEN "None" ELSE session
  /\ retry_of' = "None"
  /\ waited' = FALSE
  /\ session' = IF session = "Work" THEN "Break" ELSE "None"
  /\ pc' = IF session = "Work" THEN "switch_tab" ELSE "backoff"

\* main_loop, lines 445-448 and 451-454: the session returned False;
\* print, then sleep(5) and "continue"
main_loop_session_failed ==
  /\ last_failed' = session
  /\ retry_of' = "None"
  /\ waited' = FALSE
  /\ session' = "None"
  /\ pc' = "backoff"

\* a session operation returns False to main_loop
SessionFalse(f, w) ==
  /\ last_ret' = Ret(FALSE, f, w)
  /\ main_loop_session_failed

\* a session operation goes on to its next step
SessionOn(next) ==
  /\ pc' = next
  /\ UNCHANGED <<last_ret, retryVars, session>>

\* "continue" (lines 448, 454) goes to the top of "while True", whose first
\* session is always Work (line 445), whichever session failed
first_session_retries(failed) == IF failed = "Break" THEN "Break" ELSE "Work"

first_session(failed) == "Work"

\* lines 438-442 and the entry of start_work_timer (line 350)
LoopTop ==
  /\ pc = "loop_top"
  /\ session_count < MaxCycles
  /\ session_count' = session_count + 1
  /\ session' = first_session(last_failed)
  /\ i' = 0
  /\ sel' = 0
  /\ markers' = 0
  /\ waits' = 0
  /\ fails' = {}
  /\ warned' = {}
  /\ last_ret' = NoRet
  /\ lastCmd' = NoCmd
  /\ retry_of' = last_failed
  /\ last_failed' = "None"
  /\ pc' = "switch_tab"
  /\ UNCHANGED <<envVars, cfgVars, tabVars, brVars, flagVars, brave_path,
                 after, exit_status, interrupts, completed, reported,
                 cleanup_calls, waited, int_sleep>>

\* switch_tab (lines 189-197) as called at lines 353-354 / 390-391
SwitchTab ==
  /\ pc = "switch_tab"
  /\ \/ /\ window_exists(session_tab(session))
        /\ focus' = session_tab(session)
        /\ last_ret' = NoRet
        /\ pc' = "stop_timer"
        /\ UNCHANGED <<fails, retryVars, session>>
     \/ /\ fails' = fails \cup {"switch"}
        /\ IF session_aborts_on("switch")
             THEN SessionFalse(fails', warned)
             ELSE /\ last_ret' = NoRet
                  /\ pc' = "stop_timer"
                  /\ UNCHANGED <<retryVars, session>>
        /\ UNCHANGED focus
  /\ UNCHANGED <<envVars, cfgVars, tabVars, flagVars, driver, handles,
                 brave_path, after, i, sel, session_count, exit_status,
                 interrupts, markers, waits, warned, lastCmd, completed,
                 reported, cleanup_calls, int_sleep>>

\* stop_timer (lines 336-346) as called at 359 / 396: its result is ignored
StopTimer ==
  /\ pc = "stop_timer"
  /\ lastCmd' = Cmd("reset")
  /\ \/ UNCHANGED fails
     \/ fails' = fails \cup {"reset"}
  /\ pc' = "set_direct"
  /\ UNCHANGED <<envVars, cfgVars, tabVars, brVars, retryVars, flagVars,
                 brave_path, after, session, i, sel, session_count,
                 exit_status, interrupts, markers, waits, warned, last_ret,
                 completed, reported, cleanup_calls, int_sleep>>

\* set_timer_duration, lines 201-240: the direct script
SetDirect ==
  /\ pc = "set_direct"
  /\ lastCmd' = Cmd("duration")
  /\ \/ /\ pc' = "start_script"
        /\ UNCHANGED fails
     \/ /\ pc' = "set_fallback"
        /\ fails' = fails \cup {"direct"}
  /\ UNCHANGED <<envVars, cfgVars, tabVars, brVars, retryVars, flagVars,
                 brave_path, after, session, i, sel, session_count,
                 exit_status, interrupts, markers, waits, warned, last_ret,
                 completed, reported, cleanup_calls, int_sleep>>

\* set_timer_duration, lines 243-266, and the warning of lines 363-364 /
\* 400-401.  The bare "except:" of line 265 also catches KeyboardInterrupt.
SetFallback ==
  /\ pc = "set_fallback"
  /\ lastCmd' = Cmd("duration")
  /\ \/ /\ SessionOn("start_script")
        /\ UNCHANGED <<fails, warned, interrupts>>
     \/ /\ \/ UNCHANGED interrupts
           \/ /\ CanInterrupt
              /\ interrupts' = interrupts + 1
        /\ fails' = fails \cup {"fallback"}
        /\ IF session_aborts_on("duration")
             THEN /\ SessionFalse(fails', warned)
                  /\ UNCHANGED warned
             ELSE /\ warned' = warned \cup {"duration"}
                  /\ SessionOn("start_script")
  /\ UNCHANGED <<envVars, cfgVars, tabVars, brVars, flagVars, brave_path,
                 after, i, sel, session_count, exit_status, markers, waits,
                 completed, reported, cleanup_calls, int_sleep>>

\* start_timer, lines 270-309 and 332-334, and the warning of 369-370 /
\* 406-407: the script clicked a start control (true), found none (false),
\* or raised
StartScript ==
  /\ pc = "start_script"
  /\ lastCmd' = Cmd("start")
  /\ i' = 0
  /\ \/ /\ SessionOn("sleep")
        /\ UNCHANGED <<fails, warned, sel>>
     \/ /\ SessionOn("start_fallback")
        /\ sel' = 1
        /\ UNCHANGED <<fails, warned>>
     \/ /\ fails' = fails \cup {"script"}
        /\ IF session_aborts_on("start")
             THEN /\ SessionFalse(fails', warned)
                  /\ UNCHANGED warned
             ELSE /\ warned' = warned \cup {"start"}
                  /\ SessionOn("sleep")
        /\ UNCHANGED sel
  /\ UNCHANGED <<envVars, cfgVars, tabVars, brVars, flagVars, brave_path,
                 after, session_count, exit_status, interrupts, markers,
                 waits, completed, reported, cleanup_calls, int_sleep>>

\* start_timer, lines 312-330: one selector of the XPath fallback.  The bare
\* "except:" of line 326 catches the timeout, a failing click and
\* KeyboardInterrupt alike, and goes on to the next selector; after the last
\* one the function returns True anyway.
StartFallback ==
  /\ pc = "start_fallback"
  /\ lastCmd' = Cmd("start")
  /\ \/ /\ pc' = "sleep"
        /\ sel' = 0
        /\ UNCHANGED <<fails, interrupts>>
     \/ /\ \/ UNCHANGED interrupts
           \/ /\ CanInterrupt
              /\ interrupts' = interrupts + 1
        /\ IF sel < NSelectors
             THEN /\ sel' = sel + 1
                  /\ pc' = "start_fallback"
                  /\ UNCHANGED fails
             ELSE /\ sel' = 0
                  /\ pc' = "sleep"
                  /\ fails' = fails \cup {"nostart"}
  /\ UNCHANGED <<envVars, cfgVars, tabVars, brVars, retryVars, flagVars,
                 brave_path, after, session, i, session_count, exit_status,
                 markers, waits, warned, last_ret, completed, reported,
                 cleanup_calls, int_sleep>>

\* lines 377-379 / 414-416: one pass of the progress loop
SleepMinute ==
  /\ pc = "sleep"
  /\ progress_loop_runs(i, session_duration(session))
  /\ markers' = markers + 1
  /\ waits' = waits + 1
  /\ i' = i + 1
  /\ UNCHANGED <<envVars, cfgVars, tabVars, brVars, retryVars, flagVars,
                 brave_path, pc, after, session, sel, session_count,
                 exit_status, interrupts, fails, warned, last_ret, lastCmd,
                 completed, reported, cleanup_calls, int_sleep>>

\* lines 380-383 / 417-420: the session returns True.  After Work, main_loop
\* calls start_break_timer (line 451); after Break the pair is complete.
FinishSession ==
  /\ pc = "sleep"
  /\ ~progress_loop_runs(i, session_duration(session))
  /\ last_ret' = Ret(TRUE, fails, warned)
  /\ i' = 0
  /\ markers' = 0
  /\ waits' = 0
  /\ fails' = {}
  /\ warned' = {}
  /\ lastCmd' = NoCmd
  /\ retry_of' = "None"
  /\ \/ /\ session = "Work"
        /\ session' = "Break"
        /\ pc' = "switch_tab"
        /\ UNCHANGED completed
     \/ /\ session = "Break"
        /\ session' = "None"
        /\ completed' = completed + 1
        /\ pc' = "cycle_done"
  /\ UNCHANGED <<envVars, cfgVars, tabVars, brVars, flagVars, brave_path,
                 after, sel, session_count, exit_status, interrupts,
                 reported, cleanup_calls, last_failed, waited, int_sleep>>

\* line 456: the only print with non-ASCII text; on a console that cannot
\* encode it print raises UnicodeEncodeError, an Exception that nothing in
\* the iteration catches: main_loop's "except Exception" (lines 462-466)
CycleDone ==
  /\ pc = "cycle_done"
  /\ \/ /\ pc' = "loop_top"
        /\ UNCHANGED <<after, unexpected>>
     \/ /\ unexpected' = TRUE
        /\ pc' = "cleanup"
        /\ after' = "return"
  /\ UNCHANGED <<envVars, cfgVars, tabVars, brVars, sessVars, retryVars,
                 brave_path, session, i, sel, session_count, exit_status,
                 interrupts, last_ret, lastCmd, completed, reported,
                 cleanup_calls, int_sleep, acq_failed, tabs_failed,
                 loop_entered>>

\* lines 447-448 / 453-454: time.sleep(5); continue
BackOff ==
  /\ pc = "backoff"
  /\ waited' = TRUE
  /\ pc' = "loop_top"
  /\ UNCHANGED <<envVars, cfgVars, tabVars, brVars, sessVars, flagVars,
                 brave_path, after, session, i, sel, session_count,
                 exit_status, interrupts, last_ret, lastCmd, completed,
                 reported, cleanup_calls, last_failed, retry_of, int_sleep>>

\* The blocking steps of main_loop whose KeyboardInterrupt reaches the
\* handler of line 458: every except clause on the way is "except Exception".
InterruptiblePcs == {"switch_tab", "stop_timer", "set_direct", "start_script",
                     "backoff"}

MainLoopInterrupt ==
  /\ CanInterrupt
  /\ \/ /\ pc \in InterruptiblePcs
        /\ UNCHANGED <<markers, int_sleep>>
     \/ /\ pc = "sleep"
        /\ progress_loop_runs(i, session_duration(session))
        /\ markers' = markers + 1
        /\ int_sleep' = TRUE
  /\ main_loop_KeyboardInterrupt
  /\ UNCHANGED <<envVars, cfgVars, tabVars, brVars, retryVars, flagVars,
                 brave_path, session, i, sel, session_count, exit_status,
                 waits, fails, warned, last_ret, lastCmd, completed,
                 cleanup_calls>>

\* ------------------------------------------------------------ specifications
Next ==
  \/ SetupBraveFind
  \/ SetupBraveStart
  \/ SetupBraveMaximize
  \/ TabsLoadWork
  \/ TabsOpen
  \/ TabsSwitchBreak
  \/ TabsLoadBreak
  \/ TabsSwitchBack
  \/ SetupTabsRaise
  \/ SetupTabsInterrupt
  \/ Cleanup
  \/ LoopTop
  \/ SwitchTab
  \/ StopTimer
  \/ SetDirect
  \/ SetFallback
  \/ StartScript
  \/ StartFallback
  \/ SleepMinute
  \/ FinishSession
  \/ CycleDone
  \/ BackOff
  \/ MainLoopInterrupt

Spec == Init /\ [][Next]_vars

\* The sessions with their durations overridden (0 .. MaxDur minutes each)
InitDur ==
  /\ system \in Systems
  /\ exists = Range(possible_paths(system))
  /\ work_duration \in 0..MaxDur
  /\ break_duration \in 0..MaxDur
  /\ InitObject

SpecDur == InitDur /\ [][Next]_vars

\* find_brave_path on every platform and every filesystem
InitFind ==
  /\ system \in Systems
  /\ exists \in SUBSET Range(possible_paths(system))
  /\ work_duration = WORK_DURATION
  /\ break_duration = BREAK_DURATION
  /\ InitObject

NextFind == SetupBraveFind

SpecFind == InitFind /\ [][NextFind]_vars

\* ------------------------------------------------------------------- claims
\* the configured duration of the session a return record is about
ConfiguredDuration(r) ==
  IF r.session = "Work" THEN work_duration ELSE break_duration

Returned == last_ret.session # "None"

\* C1 (as claimed): the cycle counter counts the fully successful Work+Break
\* pairs: whenever main_loop stands between two iterations (at the top of the
\* loop, or backing off after a failed session) session_count equals the
\* number of iterations in which both sessions returned success.
C1_CounterCountsSuccessfulPairs ==
  (loop_entered /\ pc \in {"loop_top", "backoff", "cycle_done"})
    => session_count = completed

\* C2 (as claimed): every session call that returns has emitted exactly d
\* progress markers and performed exactly d one-minute waits, d its
\* configured duration.
C2_EveryReturnHasAllMarkers ==
  Returned =>
    /\ last_ret.markers = ConfiguredDuration(last_ret)
    /\ last_ret.waits = ConfiguredDuration(last_ret)

\* C2 (amended): a session call that returns success has emitted exactly d
\* markers and performed exactly d one-minute waits, whatever the driver did
\* on reset, duration-set and start; a call that returns failure (the tab
\* switch failed) has emitted no marker and performed no wait.
C2_SuccessfulReturnHasAllMarkers ==
  Returned =>
    IF last_ret.value
      THEN /\ last_ret.markers = ConfiguredDuration(last_ret)
           /\ last_ret.waits = ConfiguredDuration(last_ret)
      ELSE /\ last_ret.markers = 0
           /\ last_ret.waits = 0
           /\ "switch" \in last_ret.fails

\* C2 witness: a session of the longest duration returned success although
\* reset, both duration-set attempts and the start script all failed.
C2_Witness ==
  /\ Returned
  /\ last_ret.value
  /\ ConfiguredDuration(last_ret) = MaxDur
  /\ last_ret.markers = MaxDur
  /\ {"reset", "direct", "fallback", "script"} \subseteq last_ret.fails

\* C3: once an interrupt has arrived inside a progress loop's one-minute
\* sleep, no session step runs any more (control is in cleanup or the
\* process has ended), cleanup is called exactly once, and the process ends
\* with status 0, also when driver.quit() raises inside cleanup.
C3_InterruptInSleepTearsDownOnce ==
  int_sleep =>
    /\ pc \in {"cleanup", "exit"}
    /\ pc = "cleanup" => cleanup_calls = 0
    /\ pc = "exit" => (cleanup_calls = 1 /\ exit_status = 0)

\* C3 witness: the only interrupt of the run arrived in a sleep, quit() then
\* raised (the driver was never closed), and the process ended with 0.
C3_Witness ==
  /\ int_sleep
  /\ interrupts = 1
  /\ pc = "exit"
  /\ driver = "running"
  /\ cleanup_calls = 1
  /\ exit_status = 0

\* C4: when browser acquisition or the initial tab setup fails, the main loop
\* is never entered (no session starts, the counter is never touched) and
\* the process ends with status 1.
C4_SetupFailureIsFatal ==
  (acq_failed \/ tabs_failed) =>
    /\ ~loop_entered
    /\ session = "None"
    /\ session_count = 0
    /\ completed = 0
    /\ pc \in {"cleanup", "exit"}
    /\ pc = "exit" => exit_status = 1

\* C4 witness: setup_tabs failed after the browser had started, cleanup ran
\* and the process ended.
C4_Witness ==
  /\ tabs_failed
  /\ driver # "None"
  /\ pc = "exit"
  /\ cleanup_calls = 1

\* C5: a session operation returns failure exactly when its tab switch
\* failed; otherwise, whatever failed on reset, duration-set and start, it
\* slept its full duration and returned success, having printed the
\* duration warning exactly when set_timer_duration reported failure and the
\* start warning exactly when start_timer reported failure.
C5_OnlySwitchFailureFailsSession ==
  Returned =>
    /\ last_ret.value <=> ("switch" \notin last_ret.fails)
    /\ last_ret.value =>
         /\ last_ret.markers = ConfiguredDuration(last_ret)
         /\ last_ret.waits = ConfiguredDuration(last_ret)
    /\ ("duration" \in last_ret.warned) <=> ("fallback" \in last_ret.fails)
    /\ ("start" \in last_ret.warned) <=> ("script" \in last_ret.fails)

\* C5 witness: a Break session returned success with both warnings printed,
\* after reset, both duration-set attempts and the start script failed.
C5_Witness ==
  /\ Returned
  /\ last_ret.session = "Break"
  /\ last_ret.value
  /\ last_ret.fails = {"reset", "direct", "fallback", "script"}
  /\ last_ret.warned = {"duration", "start"}
  /\ last_ret.waits = BREAK_DURATION

\* C6 (as claimed): the session attempted after a failed session, once the
\* back-off has elapsed, is of the same type as the one that failed.
C6_RetriesSameType ==
  retry_of # "None" => (waited /\ session = retry_of)

\* C6 (amended): after a failed session nothing is attempted before the
\* back-off has elapsed, and the session attempted next is a Work session
\* (the top of the next iteration), whether Work or Break had failed.
C6_RetriesFromWork ==
  /\ last_failed # "None" => pc \in {"backoff", "loop_top", "cleanup", "exit"}
  /\ (last_failed # "None" /\ pc = "loop_top") => waited
  /\ retry_of # "None" => (waited /\ session = "Work")

\* C6 witness: a Work session is running in the iteration that follows a
\* failed Break session.
C6_Witness ==
  /\ retry_of = "Break"
  /\ session = "Work"
  /\ pc = "sleep"

\* C7: once find_brave_path has run, its result is the existing candidate of
\* smallest index in the platform's list, and it is None exactly when no
\* candidate exists, in which case the process ends with status 1.
C7_FirstExistingCandidate ==
  pc # "setup_browser" =>
    LET P == possible_paths(system)
    IN /\ (brave_path = "None") <=> (\A k \in 1..Len(P) : P[k] \notin exists)
       /\ brave_path # "None" =>
            \E k \in 1..Len(P) :
              /\ P[k] = brave_path
              /\ P[k] \in exists
              /\ \A j \in 1..(k - 1) : P[j] \notin exists
       /\ brave_path = "None" => (acq_failed /\ pc = "exit" /\ exit_status = 1)

\* C7 witness: the first two candidates are missing, the third and a later
\* one exist, and the third was returned.
C7_Witness ==
  /\ pc = "start_driver"
  /\ Len(possible_paths(system)) >= 4
  /\ brave_path = possible_paths(system)[3]
  /\ Cardinality(exists) >= 2

\* C8 (as claimed): status 0 only for an interrupt-triggered shutdown; a main
\* loop ended by an unexpected exception ends the process with status 1.
C8_UnexpectedErrorExitsOne ==
  pc = "exit" =>
    /\ unexpected => exit_status = 1
    /\ exit_status = 0 => (reported # -1 /\ ~unexpected)

\* C9 (as claimed): the total printed on interrupt equals the number of
\* cycles completed, i.e. of iterations whose Work and Break sessions both
\* returned success before the interrupt.
C9_SummaryEqualsCompletedCycles ==
  reported # -1 => reported = completed

\* C10: the durations stay 25 and 5; every reset, duration-set and start
\* command of a Work session is sent while the Work tab is focused, of a
\* Break session while the Break tab is focused; and from the end of setup
\* until the browser is closed the focused context is one of the two
\* distinct tabs.
C10_DurationsAndFocus ==
  /\ work_duration = 25
  /\ break_duration = 5
  /\ lastCmd.session = "Work" => lastCmd.focus = work_tab
  /\ lastCmd.session = "Break" => lastCmd.focus = break_tab
  /\ (loop_entered /\ driver = "running") =>
       /\ work_tab # break_tab
       /\ work_tab # "None"
       /\ break_tab # "None"
       /\ focus \in {work_tab, break_tab}

\* C10 witness: the start command of a Break session has been sent with the
\* Break tab focused.
C10_Witness ==
  /\ lastCmd.session = "Break"
  /\ lastCmd.kind = "start"
  /\ lastCmd.focus = break_tab
  /\ focus = break_tab

\* C11: every iteration of main_loop begins with a Work session (a Work
\* session starts exactly when the counter advances), and a Break session
\* starts only in the step in which the Work session of the same iteration
\* returns success; so no Break session follows a failed Work session or
\* another Break session directly.
C11_BreakOnlyAfterSuccessfulWork ==
  [][
    /\ session_count' # session_count =>
         (session' = "Work" /\ pc' = "switch_tab")
    /\ (session' = "Work" /\ session # "Work") =>
         session_count' = session_count + 1
    /\ (session' = "Break" /\ session # "Break") =>
         /\ session = "Work"
         /\ last_ret'.session = "Work"
         /\ last_ret'.value
         /\ session_count' = session_count
  ]_vars

\* C11 witness: in the second iteration, which follows a failed Break
\* session, a Break session is running after that iteration's Work session.
C11_Witness ==
  /\ session_count = 2
  /\ completed = 0
  /\ session = "Break"
  /\ pc = "sleep"

\* C12: once setup_tabs has returned success, both handles are set and
\* differ, the Break handle is one the driver reported, and at the moment
\* of return the Work tab is focused; when window.open yielded no new
\* handle (the driver reports the Work handle alone), setup_tabs has not
\* returned success.
C12_SetupTabsYieldsTwoTabs ==
  /\ loop_entered =>
       /\ work_tab # "None"
       /\ break_tab # "None"
       /\ break_tab # work_tab
       /\ break_tab \in Range(handles)
       /\ work_tab \in Range(handles)
  /\ (loop_entered /\ pc = "loop_top" /\ session_count = 0) =>
       focus = work_tab
  /\ (pc \notin {"setup_browser", "start_driver", "maximize",
                 "tabs_load_work", "tabs_open"}
        /\ work_tab # "None" /\ Len(handles) < 2) =>
       /\ ~loop_entered
       /\ break_tab = "None"
       /\ pc \in {"tabs_switch_break", "cleanup", "exit"}

\* C12 witness: setup_tabs has just returned success with the second
\* handle recorded as the Break tab and the Work tab focused.
C12_Witness ==
  /\ loop_entered
  /\ pc = "loop_top"
  /\ session_count = 0
  /\ work_tab = "h1"
  /\ break_tab = "h2"
  /\ focus = "h1"

\* C12, the other case: window.open yielded no new handle, setup_tabs
\* failed and the process ended with status 1 after cleanup.
C12_NoNewHandleReached ==
  /\ Len(handles) = 1
  /\ work_tab = "h1"
  /\ break_tab = "None"
  /\ tabs_failed
  /\ pc = "exit"
  /\ exit_status = 1

\* C13 (as claimed): once an interrupt has been delivered while main_loop is
\* running, the loop has ended: control is in cleanup or the process has
\* ended, so no further session step or one-minute wait takes place.
C13_InterruptEndsLoop ==
  (loop_entered /\ interrupts > 0) => pc \in {"cleanup", "exit"}

\* C14 (as claimed): whenever the process has ended after the driver was
\* created, cleanup has called the driver's quit.
C14_BrowserReleasedBeforeExit ==
  (pc = "exit" /\ driver # "None") => cleanup_calls >= 1

====
